---- MODULE Spec2Model ----
(***************************************************************************)
(* Model of src/app.py: the CPAP mask report.  A run is one call of        *)
(* print_mask_report (directly, or through the __main__ prompt): load the  *)
(* two tables, find_mask_items, find_airsense_accessories,                 *)
(* generate_ordering_bundle, then the rendering of the sections.           *)
(*                                                                         *)
(* Python strings that the code searches (names, descriptions, ids, the    *)
(* query) are sequences of one-character strings, so that `in`, lower(),   *)
(* strip() and str.contains are computed character by character.  Texts    *)
(* that are only printed or copied (HCPCS codes, categories, the fixed     *)
(* lines of the report) are TLA+ strings.                                  *)
(***************************************************************************)
EXTENDS Integers, Sequences, FiniteSets

(***************************************************************************)
(* Bounds of the model.                                                    *)
(***************************************************************************)
MaxRows == 2
MaxCatRows == 1
MaxWords == 2

(***************************************************************************)
(* Strings.                                                                *)
(***************************************************************************)
UpperCase == <<"A", "B", "C", "D", "E", "F", "G", "H", "I", "J", "K", "L", "M", "N", "O", "P", "Q", "R", "S", "T", "U", "V", "W", "X", "Y", "Z">>
LowerCase == <<"a", "b", "c", "d", "e", "f", "g", "h", "i", "j", "k", "l", "m", "n", "o", "p", "q", "r", "s", "t", "u", "v", "w", "x", "y", "z">>

LowerTable ==
    [c \in {UpperCase[k] : k \in DOMAIN UpperCase} |->
        LowerCase[CHOOSE k \in DOMAIN UpperCase : UpperCase[k] = c]]

LowerChar(c) == IF c \in DOMAIN LowerTable THEN LowerTable[c] ELSE c

\* str.lower()
lower(s) == [k \in 1..Len(s) |-> LowerChar(s[k])]

\* Python's `p in s` for strings
Contains(s, p) ==
    \E k \in 0..(Len(s) - Len(p)) : SubSeq(s, k + 1, k + Len(p)) = p

\* Series.str.contains('p1|p2|...', case=False, na=False) on one cell
StrContains(s, pats) == \E p \in pats : Contains(lower(s), lower(p))

IsSpace(c) == c = " "

RECURSIVE lstrip(_)
lstrip(s) == IF s # <<>> /\ IsSpace(Head(s)) THEN lstrip(Tail(s)) ELSE s

RECURSIVE rstrip(_)
rstrip(s) ==
    IF s # <<>> /\ IsSpace(s[Len(s)]) THEN rstrip(SubSeq(s, 1, Len(s) - 1)) ELSE s

\* str.strip()
strip(s) == rstrip(lstrip(s))

RECURSIVE JoinWords(_)
JoinWords(ws) ==
    IF ws = <<>> THEN <<>> ELSE <<" ">> \o Head(ws) \o JoinWords(Tail(ws))

RECURSIVE SeqsUpTo(_, _)
SeqsUpTo(S, n) ==
    IF n = 0 THEN {<<>>}
    ELSE LET shorter == SeqsUpTo(S, n - 1)
         IN  shorter \cup {Append(q, x) : q \in shorter, x \in S}

(***************************************************************************)
(* Keywords of the code.                                                   *)
(***************************************************************************)
FitpackPatterns == {<<"F", "i", "t", "p", "a", "c", "k">>, <<"C", "o", "m", "p", "l", "e", "t", "e", " ", "M", "a", "s", "k", " ", "S", "y", "s", "t", "e", "m">>, <<"K", "i", "t">>}
FramePatterns == {<<"F", "r", "a", "m", "e", " ", "S", "y", "s", "t", "e", "m">>, <<"M", "a", "s", "k", " ", "O", "n", "l", "y">>}
HeadgearPatterns == {<<"H", "e", "a", "d", "g", "e", "a", "r">>, <<"H", "G">>}
CushionPatterns == {<<"C", "u", "s", "h", "i", "o", "n">>, <<"P", "i", "l", "l", "o", "w">>, <<"S", "e", "a", "l">>}
MasterAccessoryPatterns == {<<"A", "1", "0">>, <<"A", "1", "1">>}
SnapAccessoryPatterns == {<<"A", "i", "r", "S", "e", "n", "s", "e">>, <<"C", "l", "i", "m", "a", "t", "e", "L", "i", "n", "e">>}

\* dict order of result['Cushions']
CushionKeys ==
    <<"Small", "Small/Wide", "Medium", "Medium/Wide", "Large", "X-Small", "Wide",
      "Petite", "Other">>

SizeKeys == {CushionKeys[k] : k \in 1..(Len(CushionKeys) - 1)}

(***************************************************************************)
(* Values.                                                                 *)
(***************************************************************************)
None == [id |-> <<>>, desc |-> <<>>, hcpcs |-> "None"]

Item(id, desc, hcpcs) == [id |-> id, desc |-> desc, hcpcs |-> hcpcs]

\* an element of a list that is a plain str instead of an item dict
StrElem(t) == [str |-> TRUE, text |-> t, item |-> None]
DictElem(it) == [str |-> FALSE, text |-> "", item |-> it]

EmptyCushions == [k \in SizeKeys \cup {"Other"} |-> IF k = "Other" THEN <<>> ELSE None]

\* truth value of result['Cushions'][k]: None is false, a dict is true, a list
\* is true when it is not empty
Truthy(Cushions, k) ==
    IF k = "Other" THEN Cushions[k] # <<>> ELSE Cushions[k] # None

NoItems == [kind |-> "unset", query |-> <<>>, Fitpack |-> <<>>, Frame |-> <<>>,
            Headgear |-> <<>>, Cushions |-> EmptyCushions,
            Summary |-> [fallback |-> TRUE, category |-> "", name |-> <<>>],
            Pros |-> <<>>, Cons |-> <<>>, Alternatives |-> <<>>, HCPCS |-> {}]

\* {'error': f"No items found for mask: {mask_name}"}
ErrorResult(q) == [NoItems EXCEPT !.kind = "error", !.query = q]

InitialResult(q) ==
    [NoItems EXCEPT
        !.kind = "report", !.query = q,
        !.Pros = <<"Custom pros not available. Add manually or use web search for details.">>,
        !.Cons = <<"Custom cons not available. Add manually or use web search for details.">>,
        !.Alternatives =
            <<StrElem("No alternatives found. Suggest similar masks from the inventory.")>>]

\* result['HCPCS'][k] = v
DictPut(d, k, v) == {p \in d : p[1] # k} \cup {<<k, v>>}

(***************************************************************************)
(* The inputs: the two tables and the text typed at the prompt.            *)
(***************************************************************************)
CatRow(id, name, cat) == [ItemID |-> id, ItemName |-> name, Category |-> cat]
SnapRow(code, desc, hcpcs) == [ItemCode |-> code, Description |-> desc, HCPCS |-> hcpcs]

CatalogRows ==
    { CatRow(<<"1", "0">>, <<"A", "i", "r", "F", "i", "t", " ", "F", "4", "0", " ", "F", "i", "t", "p", "a", "c", "k">>, "ResMed"),
      CatRow(<<"3", "0">>, <<"A", "i", "r", "S", "e", "n", "s", "e", " ", "A", "1", "1", " ", "T", "u", "b", "i", "n", "g">>, "ResMed") }

BillingRows ==
    { SnapRow(<<"1", "0", "1">>, <<"F", "4", "0", " ", "C", "u", "s", "h", "i", "o", "n", " ", "S", "m", "a", "l", "l">>, "A7030"),
      SnapRow(<<"1", "0", "2">>, <<"F", "4", "0", " ", "C", "u", "s", "h", "i", "o", "n", " ", "X", "-", "S", "m", "a", "l", "l">>, "A7030"),
      SnapRow(<<"1", "0", "3">>, <<"F", "4", "0", " ", "S", "e", "a", "l", " ", "s", "m", "l", "-", "w", "d", " ", "m", "e", "d", "i", "u", "m", " ", "w", "i", "d", "e">>, "A7031"),
      SnapRow(<<"1", "0", "4">>, <<"F", "4", "0", " ", "H", "e", "a", "d", "g", "e", "a", "r", " ", "C", "u", "s", "h", "i", "o", "n", " ", "W", "i", "d", "e">>, "A7035"),
      SnapRow(<<"1", "0", "5">>, <<"F", "4", "0", " ", "F", "r", "a", "m", "e", " ", "S", "y", "s", "t", "e", "m">>, "A7034"),
      SnapRow(<<"1", "0", "6">>, <<"F", "4", "0", " ", "P", "i", "l", "l", "o", "w">>, "A7033"),
      SnapRow(<<"1", "0", "7">>, <<"F", "4", "0", " ", "S", "e", "a", "l">>, "A7033"),
      SnapRow(<<"1", "0", "8">>, <<"F", "4", "0", " ", "E", "l", "b", "o", "w">>, "A7036"),
      SnapRow(<<"3", "0">>, <<"A", "i", "r", "S", "e", "n", "s", "e", " ", "A", "1", "1", " ", "H", "o", "s", "e">>, "A4604") }

SizeWords ==
    { <<"s", "m", "a", "l", "l">>, <<"m", "e", "d", "i", "u", "m">>, <<"w", "i", "d", "e">>, <<"l", "a", "r", "g", "e">>, <<"x", "-", "s", "m", "a", "l", "l">>, <<"x", "s">>, <<"p", "e", "t", "i", "t", "e">>, <<"m", "e", "d", "-", "w", "d">> }

WordRow(ws) == SnapRow(<<"1", "0", "9">>, <<"F", "4", "0", " ", "C", "u", "s", "h", "i", "o", "n">> \o JoinWords(ws), "A7032")

CatalogTables == SeqsUpTo(CatalogRows, MaxCatRows)

BillingTables ==
    SeqsUpTo(BillingRows, MaxRows) \cup {<<WordRow(ws)>> : ws \in SeqsUpTo(SizeWords, MaxWords)}

Inputs == { <<>>, <<" ">>, <<"f", "4", "0">>, <<"A", "1", "1">> }

(***************************************************************************)
(* find_mask_items                                                         *)
(***************************************************************************)
\* variant: the argument is not checked
InvalidNameUnchecked(name) == FALSE

\* not mask_name or not isinstance(mask_name, str)
InvalidName(name) == name = <<>>

MasterMask(master, name) ==
    SelectSeq(master, LAMBDA r : StrContains(r.ItemName, {name}))

SnapMask(snap, name) ==
    SelectSeq(snap, LAMBDA r : StrContains(r.Description, {name}))

\* variant: `or` for `and`
NothingFoundEither(mmask, smask) == mmask = <<>> \/ smask = <<>>

\* master_mask.empty and snap_mask.empty
NothingFound(mmask, smask) == mmask = <<>> /\ smask = <<>>

\* snap_df[snap_df['Item Code'].str.contains(id)]['HCPCS'].iloc[0] if ... else 'N/A'
LookupHCPCS(snap, id) ==
    LET hits == SelectSeq(snap, LAMBDA r : Contains(r.ItemCode, id))
    IN  IF hits # <<>> THEN hits[1].HCPCS ELSE "N/A"

FitpackRows(mmask) == SelectSeq(mmask, LAMBDA r : StrContains(r.ItemName, FitpackPatterns))
FrameRows(smask) == SelectSeq(smask, LAMBDA r : StrContains(r.Description, FramePatterns))
\* variant: headgear searched only among the rows that are not cushions
HeadgearRowsExclusive(smask) ==
    SelectSeq(smask, LAMBDA r : /\ StrContains(r.Description, HeadgearPatterns)
                                /\ ~StrContains(r.Description, CushionPatterns))

HeadgearRows(smask) == SelectSeq(smask, LAMBDA r : StrContains(r.Description, HeadgearPatterns))
CushionRows(smask) == SelectSeq(smask, LAMBDA r : StrContains(r.Description, CushionPatterns))

SnapItem(r) == Item(r.ItemCode, r.Description, r.HCPCS)
MasterItem(snap, r) == Item(r.ItemID, r.ItemName, LookupHCPCS(snap, r.ItemID))

RECURSIVE PutAll(_, _)
PutAll(d, items) ==
    IF items = <<>> THEN d
    ELSE PutAll(DictPut(d, Head(items).id, Head(items).hcpcs), Tail(items))

Map(s, F(_)) == [k \in 1..Len(s) |-> F(s[k])]

\* variant: the plain Medium test placed ahead of the chain, without its
\* exclusion of "wide"
SizeKeyMediumFirst(d) ==
    IF Contains(d, <<"m", "e", "d", "i", "u", "m">>) THEN "Medium"
    ELSE IF Contains(d, <<"s", "m", "a", "l", "l", " ", "w", "i", "d", "e">>) \/ Contains(d, <<"s", "m", "l", "-", "w", "d">>) \/ Contains(d, <<"s", "m", "l", "/", "w", "d">>)
    THEN "Small/Wide"
    ELSE IF Contains(d, <<"w", "i", "d", "e">>) /\ ~Contains(d, <<"s", "m", "a", "l", "l">>) THEN "Wide"
    ELSE IF Contains(d, <<"s", "m", "a", "l", "l">>) /\ ~Contains(d, <<"w", "i", "d", "e">>) THEN "Small"
    ELSE IF Contains(d, <<"l", "a", "r", "g", "e">>) THEN "Large"
    ELSE IF Contains(d, <<"x", "-", "s", "m", "a", "l", "l">>) \/ Contains(d, <<"x", "-", "s", "m", "l">>) \/ Contains(d, <<"x", "s">>)
    THEN "X-Small"
    ELSE IF Contains(d, <<"p", "e", "t", "i", "t", "e">>) \/ Contains(d, <<"p", "t", "t">>) THEN "Petite"
    ELSE "Other"

\* the if/elif chain on desc_lower
SizeKey(d) ==
    IF Contains(d, <<"s", "m", "a", "l", "l", " ", "w", "i", "d", "e">>) \/ Contains(d, <<"s", "m", "l", "-", "w", "d">>) \/ Contains(d, <<"s", "m", "l", "/", "w", "d">>)
    THEN "Small/Wide"
    ELSE IF Contains(d, <<"m", "e", "d", "i", "u", "m", " ", "w", "i", "d", "e">>) \/ Contains(d, <<"m", "e", "d", "-", "w", "d">>) \/ Contains(d, <<"m", "d", "/", "w", "i", "d", "e">>)
    THEN "Medium/Wide"
    ELSE IF Contains(d, <<"w", "i", "d", "e">>) /\ ~Contains(d, <<"s", "m", "a", "l", "l">>) /\ ~Contains(d, <<"m", "e", "d", "i", "u", "m">>)
    THEN "Wide"
    ELSE IF Contains(d, <<"s", "m", "a", "l", "l">>) /\ ~Contains(d, <<"w", "i", "d", "e">>)
    THEN "Small"
    ELSE IF Contains(d, <<"m", "e", "d", "i", "u", "m">>) /\ ~Contains(d, <<"w", "i", "d", "e">>)
    THEN "Medium"
    ELSE IF Contains(d, <<"l", "a", "r", "g", "e">>)
    THEN "Large"
    ELSE IF Contains(d, <<"x", "-", "s", "m", "a", "l", "l">>) \/ Contains(d, <<"x", "-", "s", "m", "l">>) \/ Contains(d, <<"x", "s">>)
    THEN "X-Small"
    ELSE IF Contains(d, <<"p", "e", "t", "i", "t", "e">>) \/ Contains(d, <<"p", "t", "t">>)
    THEN "Petite"
    ELSE "Other"

\* variant: a populated size bucket keeps its first item
ClassifyCushionKeepFirst(Cushions, item) ==
    LET key == SizeKey(lower(item.desc))
    IN  IF key = "Other"
        THEN [Cushions EXCEPT !["Other"] = Append(@, item)]
        ELSE IF Cushions[key] # None THEN Cushions
        ELSE [Cushions EXCEPT ![key] = item]

\* one pass of the body of `for _, row in cushions.iterrows()` on result['Cushions']
ClassifyCushion(Cushions, item) ==
    LET key == SizeKey(lower(item.desc))
    IN  IF key = "Other"
        THEN [Cushions EXCEPT !["Other"] = Append(@, item)]
        ELSE [Cushions EXCEPT ![key] = item]

\* master_df[(Category == category) & ~ItemName.str.contains(mask_name)].head(2)
AlternativeRows(master, category, name) ==
    LET rows == SelectSeq(master,
                    LAMBDA r : r.Category = category /\ ~StrContains(r.ItemName, {name}))
    IN  SubSeq(rows, 1, IF Len(rows) < 2 THEN Len(rows) ELSE 2)

(***************************************************************************)
(* generate_ordering_bundle                                                *)
(***************************************************************************)
Entry(it, qty, type) ==
    [id |-> it.id, desc |-> it.desc, hcpcs |-> it.hcpcs, qty |-> qty, type |-> type]

CushionEntry(it) == Entry(it, 3, "Cushion")

\* for size, cushion in mask_items['Cushions'].items(), from the k-th key on
RECURSIVE CushionEntries(_, _)
CushionEntries(Cushions, k) ==
    IF k > Len(CushionKeys) THEN <<>>
    ELSE LET size == CushionKeys[k]
             this == IF Truthy(Cushions, size) /\ size # "Other"
                     THEN <<CushionEntry(Cushions[size])>>
                     ELSE IF size = "Other"
                     THEN Map(Cushions["Other"], CushionEntry)
                     ELSE <<>>
         IN  this \o CushionEntries(Cushions, k + 1)

FirstEntry(list, type) ==
    IF list # <<>> THEN <<Entry(list[1], 1, type)>> ELSE <<>>

\* variant: the frame added before the headgear
generate_ordering_bundle_frame_first(items) ==
    CushionEntries(items.Cushions, 1)
        \o FirstEntry(items.Frame, "Frame")
        \o FirstEntry(items.Headgear, "Headgear")
        \o FirstEntry(items.Fitpack, "Fitpack")

generate_ordering_bundle(items) ==
    CushionEntries(items.Cushions, 1)
        \o FirstEntry(items.Headgear, "Headgear")
        \o FirstEntry(items.Frame, "Frame")
        \o FirstEntry(items.Fitpack, "Fitpack")

(***************************************************************************)
(* find_airsense_accessories                                               *)
(***************************************************************************)
NoAccessories == [Hose |-> <<>>, Filter |-> <<>>, WaterChamber |-> <<>>]

MasterBucket(d) ==
    IF Contains(d, <<"t", "u", "b", "i", "n", "g">>) \/ Contains(d, <<"h", "o", "s", "e">>) THEN "Hose"
    ELSE IF Contains(d, <<"f", "i", "l", "t", "e", "r">>) THEN "Filter"
    ELSE IF Contains(d, <<"h", "u", "m", "i", "d">>) \/ Contains(d, <<"w", "a", "t", "e", "r">>) \/ Contains(d, <<"c", "h", "a", "m", "b", "e", "r">>)
    THEN "WaterChamber"
    ELSE "none"

SnapBucket(d) ==
    IF Contains(d, <<"t", "u", "b", "i", "n", "g">>) \/ Contains(d, <<"h", "o", "s", "e">>) THEN "Hose"
    ELSE IF Contains(d, <<"f", "i", "l", "t", "e", "r">>) THEN "Filter"
    ELSE IF Contains(d, <<"w", "a", "t", "e", "r", " ", "c", "h", "a", "m", "b", "e", "r">>) \/ Contains(d, <<"h", "u", "m", "i", "d">>) \/ Contains(d, <<"c", "h", "a", "m", "b", "e", "r">>)
    THEN "WaterChamber"
    ELSE "none"

\* Python's `item in list` for dicts: equal keys and values
InList(it, list) == \E k \in DOMAIN list : list[k] = it

\* accessories[bucket].append(item)
AddAccessory(acc, bucket, it) ==
    IF bucket = "none" THEN acc ELSE [acc EXCEPT ![bucket] = Append(@, it)]

\* if item not in accessories[bucket]: accessories[bucket].append(item)
AddIfAbsent(acc, bucket, it) ==
    IF bucket = "none" \/ InList(it, acc[bucket]) THEN acc
    ELSE [acc EXCEPT ![bucket] = Append(@, it)]

RECURSIVE MasterAccessories(_, _, _)
MasterAccessories(acc, rows, snap) ==
    IF rows = <<>> THEN acc
    ELSE LET row == Head(rows)
         IN  MasterAccessories(
                 AddAccessory(acc, MasterBucket(lower(row.ItemName)), MasterItem(snap, row)),
                 Tail(rows), snap)

RECURSIVE SnapAccessories(_, _)
SnapAccessories(acc, rows) ==
    IF rows = <<>> THEN acc
    ELSE LET row == Head(rows)
         IN  SnapAccessories(
                 AddIfAbsent(acc, SnapBucket(lower(row.Description)), SnapItem(row)),
                 Tail(rows))

find_airsense_accessories(master, snap) ==
    LET a10_a11 ==
            SelectSeq(master, LAMBDA r : StrContains(r.ItemName, MasterAccessoryPatterns))
        snap_a10_a11 ==
            SelectSeq(snap, LAMBDA r : StrContains(r.Description, SnapAccessoryPatterns))
    IN  SnapAccessories(MasterAccessories(NoAccessories, a10_a11, snap), snap_a10_a11)

(***************************************************************************)
(* The lines print_mask_report writes                                      *)
(***************************************************************************)
\* the backquote character, which a TLA+ string cannot hold
Backquote == "BACKQUOTE"

\* f"[backquote]{item_id}[backquote] (click to select/copy)"
format_item_id(id) == <<Backquote>> \o id \o <<Backquote>> \o <<" ", "(", "c", "l", "i", "c", "k", " ", "t", "o", " ", "s", "e", "l", "e", "c", "t", "/", "c", "o", "p", "y", ")">>

Text(t) ==
    [text |-> t, id |-> <<>>, desc |-> <<>>, hcpcs |-> "", qty |-> 0, type |-> ""]

\* f"{text}{mask_name}..." : a fixed text around the query
NameLine(t, name) == [Text(t) EXCEPT !.desc = name]

\* f"- {format_item_id(item['id'])}: {item['desc']} | HCPCS: {item['hcpcs']}"
ItemLine(it) ==
    [Text("- ") EXCEPT !.id = format_item_id(it.id), !.desc = it.desc, !.hcpcs = it.hcpcs]

\* f"- **{size}**: {format_item_id(cushion['id'])}: ..."
SizeLine(size, it) == [ItemLine(it) EXCEPT !.text = "- **", !.type = size]

\* f"| {format_item_id(item['id'])} | {item['desc'][:50]}... | {hcpcs} | {qty} | {type} |"
BundleLine(e) ==
    [text |-> "| ", id |-> format_item_id(e.id),
     desc |-> SubSeq(e.desc, 1, IF Len(e.desc) < 50 THEN Len(e.desc) ELSE 50) \o <<".", ".", ".">>,
     hcpcs |-> e.hcpcs, qty |-> e.qty, type |-> e.type]

\* one of the Fitpack / Frame Mask / Headgear sections
ItemSection(title, list) ==
    <<Text(title)>> \o (IF list # <<>> THEN Map(list, ItemLine) ELSE <<Text("- Not found")>>)

\* the loop over mask_items['Cushions'].items() from the k-th key on: the lines it
\* prints, has_cushions, and whether cushion['id'] raised (cushion being a list)
RECURSIVE CushionLines(_, _, _)
CushionLines(Cushions, k, sofar) ==
    IF k > Len(CushionKeys) THEN sofar
    ELSE LET size == CushionKeys[k]
         IN  IF Truthy(Cushions, size)
             THEN IF size = "Other"
                  THEN [sofar EXCEPT !.raised = TRUE]
                  ELSE CushionLines(Cushions, k + 1,
                           [sofar EXCEPT !.lines = Append(@, SizeLine(size, Cushions[size])),
                                         !.has = TRUE])
             ELSE IF size = "Other" /\ Cushions["Other"] # <<>>
             THEN CushionLines(Cushions, k + 1,
                      [sofar EXCEPT
                          !.lines = @ \o Map(Cushions["Other"], LAMBDA o : SizeLine("Other", o)),
                          !.has = TRUE])
             ELSE CushionLines(Cushions, k + 1, sofar)

\* the loop over mask_items['Alternatives']: alt['id'] raises on a str
RECURSIVE AlternativeLines(_, _)
AlternativeLines(alts, sofar) ==
    IF alts = <<>> THEN sofar
    ELSE IF Head(alts).str THEN [sofar EXCEPT !.raised = TRUE]
    ELSE AlternativeLines(Tail(alts),
             [sofar EXCEPT !.lines = Append(@, ItemLine(Head(alts).item))])

NoLines == [lines |-> <<>>, has |-> FALSE, raised |-> FALSE]

\* variant: the test without .lower()
ShowAccessoriesCaseSensitive(name) ==
    Contains(name, <<"a", "1", "1">>) \/ Contains(name, <<"a", "i", "r", "s", "e", "n", "s", "e", " ", "a", "1", "1">>)

\* 'a11' in mask_name.lower() or 'airsense a11' in mask_name.lower()
ShowAccessories(name) ==
    Contains(lower(name), <<"a", "1", "1">>) \/ Contains(lower(name), <<"a", "i", "r", "s", "e", "n", "s", "e", " ", "a", "1", "1">>)

(***************************************************************************)
(* State                                                                   *)
(***************************************************************************)
VARIABLES
    input,            \* the text given: typed at the prompt, or passed by a caller
    master_df,        \* content of master_inventory.csv
    snap_df,          \* content of SNAP_inventory_organized.csv
    pc,               \* position of the run
    mask_name,        \* argument of print_mask_report / find_mask_items
    master_mask,      \* find_mask_items: catalog rows matching the query
    snap_mask,        \* find_mask_items: billing rows matching the query
    cushions,         \* find_mask_items: the cushion rows being looped over
    i,                \* find_mask_items: index of the next cushion row
    mask_items,       \* the result dict of find_mask_items
    accessories,      \* result of find_airsense_accessories
    bundle,           \* result of generate_ordering_bundle
    show_accessories, \* print_mask_report's flag
    out,              \* lines written to standard output
    raised,           \* the exception that ended the run, or "none"
    exit_code         \* status passed to sys.exit, or -1

vars == <<input, master_df, snap_df, pc, mask_name, master_mask, snap_mask, cushions, i,
          mask_items, accessories, bundle, show_accessories, out, raised, exit_code>>

inputs == <<input, master_df, snap_df>>
find_locals == <<master_mask, snap_mask, cushions, i>>
report_locals == <<accessories, bundle, show_accessories>>
ending == <<raised, exit_code>>

Init ==
    /\ input \in Inputs
    /\ master_df \in CatalogTables
    /\ snap_df \in BillingTables
    /\ pc = "start"
    /\ mask_name = <<>>
    /\ master_mask = <<>>
    /\ snap_mask = <<>>
    /\ cushions = <<>>
    /\ i = 1
    /\ mask_items = NoItems
    /\ accessories = NoAccessories
    /\ bundle = <<>>
    /\ show_accessories = FALSE
    /\ out = <<>>
    /\ raised = "none"
    /\ exit_code = -1

Emit(lines) == out' = out \o lines

(***************************************************************************)
(* Entry points                                                            *)
(***************************************************************************)
\* __main__: input(...).strip(), the empty check, then print_mask_report
Main ==
    /\ pc = "start"
    /\ mask_name' = strip(input)
    /\ IF mask_name' = <<>>
       THEN /\ Emit(<<Text("Error: Mask name cannot be empty.")>>)
            /\ exit_code' = 1
            /\ pc' = "exit"
       ELSE /\ pc' = "load"
            /\ UNCHANGED <<out, exit_code>>
    /\ UNCHANGED <<inputs, find_locals, mask_items, report_locals, raised>>

\* a caller of print_mask_report(mask_name), without the prompt
Call ==
    /\ pc = "start"
    /\ mask_name' = input
    /\ pc' = "load"
    /\ UNCHANGED <<inputs, find_locals, mask_items, report_locals, out, ending>>

\* load_csvs: both files read and validated
Load ==
    /\ pc = "load"
    /\ Emit(<<Text("Successfully loaded")>>)
    /\ pc' = "find"
    /\ UNCHANGED <<inputs, mask_name, find_locals, mask_items, report_locals, ending>>

\* load_csvs: a file is missing, empty or lacks a column: (None, None), and
\* print_mask_report returns
LoadFail ==
    /\ pc = "load"
    /\ Emit(<<Text("Error loading CSVs")>>)
    /\ pc' = "returned"
    /\ UNCHANGED <<inputs, mask_name, find_locals, mask_items, report_locals, ending>>

(***************************************************************************)
(* find_mask_items, step by step                                           *)
(***************************************************************************)
\* the check of mask_name, the two filters, the early return, the initial dict
FindStart ==
    /\ pc = "find"
    /\ IF InvalidName(mask_name)
       THEN /\ raised' = "ValueError"
            /\ pc' = "raised"
            /\ UNCHANGED <<master_mask, snap_mask, mask_items>>
       ELSE /\ master_mask' = MasterMask(master_df, mask_name)
            /\ snap_mask' = SnapMask(snap_df, mask_name)
            /\ IF NothingFound(master_mask', snap_mask')
               THEN /\ mask_items' = ErrorResult(mask_name)
                    /\ pc' = "print_error"
               ELSE /\ mask_items' = InitialResult(mask_name)
                    /\ pc' = "fitpack"
            /\ UNCHANGED raised
    /\ UNCHANGED <<inputs, mask_name, cushions, i, report_locals, out, exit_code>>

FindFitpack ==
    /\ pc = "fitpack"
    /\ LET found == Map(FitpackRows(master_mask), LAMBDA r : MasterItem(snap_df, r))
       IN  mask_items' = [mask_items EXCEPT !.Fitpack = @ \o found,
                                            !.HCPCS = PutAll(@, found)]
    /\ pc' = "frame"
    /\ UNCHANGED <<inputs, mask_name, find_locals, report_locals, out, ending>>

FindFrame ==
    /\ pc = "frame"
    /\ LET found == Map(FrameRows(snap_mask), SnapItem)
       IN  mask_items' = [mask_items EXCEPT !.Frame = @ \o found,
                                            !.HCPCS = PutAll(@, found)]
    /\ pc' = "headgear"
    /\ UNCHANGED <<inputs, mask_name, find_locals, report_locals, out, ending>>

FindHeadgear ==
    /\ pc = "headgear"
    /\ LET found == Map(HeadgearRows(snap_mask), SnapItem)
       IN  mask_items' = [mask_items EXCEPT !.Headgear = @ \o found,
                                            !.HCPCS = PutAll(@, found)]
    /\ cushions' = CushionRows(snap_mask)
    /\ i' = 1
    /\ pc' = "cushions"
    /\ UNCHANGED <<inputs, mask_name, master_mask, snap_mask, report_locals, out, ending>>

\* one iteration of the loop over the cushion rows
CushionStep ==
    /\ pc = "cushions"
    /\ i <= Len(cushions)
    /\ LET item == SnapItem(cushions[i])
       IN  mask_items' = [mask_items EXCEPT !.HCPCS = DictPut(@, item.id, item.hcpcs),
                                            !.Cushions = ClassifyCushion(@, item)]
    /\ i' = i + 1
    /\ UNCHANGED <<inputs, pc, mask_name, master_mask, snap_mask, cushions, report_locals,
                   out, ending>>

\* after the loop: Summary, Alternatives, return result
FindFinish ==
    /\ pc = "cushions"
    /\ i > Len(cushions)
    /\ IF master_mask # <<>>
       THEN LET first == master_mask[1]
                alts == AlternativeRows(master_df, first.Category, mask_name)
            IN  mask_items' =
                    [mask_items EXCEPT
                        !.Summary = [fallback |-> FALSE, category |-> first.Category,
                                     name |-> first.ItemName],
                        !.Alternatives =
                            Map(alts, LAMBDA r : DictElem(MasterItem(snap_df, r)))]
       ELSE UNCHANGED mask_items
    /\ pc' = "accessories"
    /\ UNCHANGED <<inputs, mask_name, find_locals, report_locals, out, ending>>

(***************************************************************************)
(* print_mask_report after find_mask_items                                 *)
(***************************************************************************)
\* if 'error' in mask_items: print and return
ReportNotFound ==
    /\ pc = "print_error"
    /\ Emit(<<Text("## Error"), NameLine("No items found for mask: ", mask_items.query)>>)
    /\ pc' = "returned"
    /\ UNCHANGED <<inputs, mask_name, find_locals, mask_items, report_locals, ending>>

Accessories ==
    /\ pc = "accessories"
    /\ accessories' = find_airsense_accessories(master_df, snap_df)
    /\ pc' = "bundle"
    /\ UNCHANGED <<inputs, mask_name, find_locals, mask_items, bundle, show_accessories,
                   out, ending>>

Bundle ==
    /\ pc = "bundle"
    /\ bundle' = generate_ordering_bundle(mask_items)
    /\ show_accessories' = ShowAccessories(mask_name)
    /\ pc' = "render_items"
    /\ UNCHANGED <<inputs, mask_name, find_locals, mask_items, accessories, out, ending>>

\* title, Fitpack, Frame Mask, Headgear
RenderItems ==
    /\ pc = "render_items"
    /\ Emit(<<NameLine("# Mask Report", mask_name), Text("## Associated Items")>>
                \o ItemSection("### Fitpack", mask_items.Fitpack)
                \o ItemSection("### Frame Mask", mask_items.Frame)
                \o ItemSection("### Headgear", mask_items.Headgear))
    /\ pc' = "render_cushions"
    /\ UNCHANGED <<inputs, mask_name, find_locals, mask_items, report_locals, ending>>

RenderCushions ==
    /\ pc = "render_cushions"
    /\ LET loop == CushionLines(mask_items.Cushions, 1, NoLines)
       IN  IF loop.raised
           THEN /\ Emit(<<Text("### Cushions")>> \o loop.lines)
                /\ raised' = "TypeError"
                /\ pc' = "raised"
           ELSE /\ Emit(<<Text("### Cushions")>> \o loop.lines
                            \o (IF loop.has THEN <<>> ELSE <<Text("- No cushions found")>>))
                /\ pc' = "render_bundle"
                /\ UNCHANGED raised
    /\ UNCHANGED <<inputs, mask_name, find_locals, mask_items, report_locals, exit_code>>

\* the bundle table, Summary, Pros, Cons
RenderBundle ==
    /\ pc = "render_bundle"
    /\ Emit(<<Text("## Suggested Ordering Bundle (3-Month Reorder)")>>
                \o (IF bundle # <<>>
                    THEN <<Text("| Item ID | Description | HCPCS | Qty | Type |")>>
                            \o Map(bundle, BundleLine)
                    ELSE <<Text("- No bundle items available.")>>)
                \o <<Text("## Summary of Mask"),
                     [Text(IF mask_items.Summary.fallback
                           THEN "No summary found. This is a general mask report based on available data."
                           ELSE "The {mask_name} is a {category} mask. Key features inferred from data: {name}.")
                        EXCEPT !.desc = mask_items.Summary.name,
                               !.type = mask_items.Summary.category]>>
                \o <<Text("## Pros")>> \o Map(mask_items.Pros, Text)
                \o <<Text("## Cons")>> \o Map(mask_items.Cons, Text))
    /\ pc' = "render_alternatives"
    /\ UNCHANGED <<inputs, mask_name, find_locals, mask_items, report_locals, ending>>

RenderAlternatives ==
    /\ pc = "render_alternatives"
    /\ LET loop == AlternativeLines(mask_items.Alternatives, NoLines)
       IN  /\ Emit(<<Text("## Best Alternatives")>> \o loop.lines)
           /\ IF loop.raised
              THEN raised' = "TypeError" /\ pc' = "raised"
              ELSE pc' = "render_accessories" /\ UNCHANGED raised
    /\ UNCHANGED <<inputs, mask_name, find_locals, mask_items, report_locals, exit_code>>

\* the accessories section when show_accessories, then the footer
RenderAccessories ==
    /\ pc = "render_accessories"
    /\ Emit((IF show_accessories
              THEN <<Text("## AirSense A10/A11 Accessories"), Text("### Hose/Tubing")>>
                      \o Map(accessories.Hose, ItemLine)
                      \o <<Text("### Filters")>> \o Map(accessories.Filter, ItemLine)
                      \o <<Text("### Water Chamber")>>
                      \o Map(accessories.WaterChamber, ItemLine)
              ELSE <<>>)
             \o <<Text("*Tip*: Clean your mask cushion daily with mild soap and water!"),
                  Text("For CPAP returns: 5816 E. Shields Ave, Ste 111, Fresno, CA 93727")>>)
    /\ pc' = "returned"
    /\ UNCHANGED <<inputs, mask_name, find_locals, mask_items, report_locals, ending>>

Next ==
    \/ Main
    \/ Call
    \/ Load
    \/ LoadFail
    \/ FindStart
    \/ FindFitpack
    \/ FindFrame
    \/ FindHeadgear
    \/ CushionStep
    \/ FindFinish
    \/ ReportNotFound
    \/ Accessories
    \/ Bundle
    \/ RenderItems
    \/ RenderCushions
    \/ RenderBundle
    \/ RenderAlternatives
    \/ RenderAccessories

Spec == Init /\ [][Next]_vars

(***************************************************************************)
(* Vocabulary of the properties.  The keyword rules below are written out  *)
(* from the documented rule list, independently of SizeKey and of the      *)
(* filters above.                                                          *)
(***************************************************************************)
AfterFind ==
    {"accessories", "bundle", "render_items", "render_cushions", "render_bundle",
     "render_alternatives", "render_accessories", "returned", "raised"}

\* find_mask_items has just returned a report (not the error dict)
FindReturned == mask_items.kind = "report" /\ pc = "accessories"

\* the run is over
Ended == pc \in {"returned", "raised", "exit"}

\* load_csvs succeeded
Loaded == out # <<>> /\ out[1].text = "Successfully loaded"

HasText(t) == \E k \in DOMAIN out : out[k].text = t

Has(desc, word) == Contains(lower(desc), word)
HasAny(desc, words) == \E w \in words : Has(desc, w)

FrameWords == {<<"f", "r", "a", "m", "e", " ", "s", "y", "s", "t", "e", "m">>, <<"m", "a", "s", "k", " ", "o", "n", "l", "y">>}
HeadgearWords == {<<"h", "e", "a", "d", "g", "e", "a", "r">>, <<"h", "g">>}
CushionWords == {<<"c", "u", "s", "h", "i", "o", "n">>, <<"p", "i", "l", "l", "o", "w">>, <<"s", "e", "a", "l">>}

\* the rule list, highest priority first
RuleOrder ==
    <<"Small/Wide", "Medium/Wide", "Wide", "Small", "Medium", "Large", "X-Small", "Petite">>

\* the rule of a size bucket, on a lower-cased description d
RuleLower(key, d) ==
    LET has(w) == Contains(d, w)
    IN  CASE key = "Small/Wide" -> has(<<"s", "m", "a", "l", "l", " ", "w", "i", "d", "e">>) \/ has(<<"s", "m", "l", "-", "w", "d">>) \/ has(<<"s", "m", "l", "/", "w", "d">>)
          [] key = "Medium/Wide" -> has(<<"m", "e", "d", "i", "u", "m", " ", "w", "i", "d", "e">>) \/ has(<<"m", "e", "d", "-", "w", "d">>) \/ has(<<"m", "d", "/", "w", "i", "d", "e">>)
          [] key = "Wide" -> has(<<"w", "i", "d", "e">>) /\ ~has(<<"s", "m", "a", "l", "l">>) /\ ~has(<<"m", "e", "d", "i", "u", "m">>)
          [] key = "Small" -> has(<<"s", "m", "a", "l", "l">>) /\ ~has(<<"w", "i", "d", "e">>)
          [] key = "Medium" -> has(<<"m", "e", "d", "i", "u", "m">>) /\ ~has(<<"w", "i", "d", "e">>)
          [] key = "Large" -> has(<<"l", "a", "r", "g", "e">>)
          [] key = "X-Small" -> has(<<"x", "-", "s", "m", "a", "l", "l">>) \/ has(<<"x", "-", "s", "m", "l">>) \/ has(<<"x", "s">>)
          [] key = "Petite" -> has(<<"p", "e", "t", "i", "t", "e">>) \/ has(<<"p", "t", "t">>)

Rule(key, desc) == RuleLower(key, lower(desc))

\* the first rule of the list that the description satisfies, else Other
Assigned(desc) ==
    LET d == lower(desc)
        sat == {k \in DOMAIN RuleOrder : RuleLower(RuleOrder[k], d)}
    IN  IF sat = {} THEN "Other"
        ELSE RuleOrder[CHOOSE k \in sat : \A j \in sat : k <= j]

\* the cushion destinations that hold an item
CushionHolders(it) ==
    {key \in SizeKeys : mask_items.Cushions[key] = it}
        \cup (IF InList(it, mask_items.Cushions["Other"]) THEN {"Other"} ELSE {})

\* every category that holds an item made from a billing row
Holders(it) ==
    (IF InList(it, mask_items.Frame) THEN {"Frame"} ELSE {})
        \cup (IF InList(it, mask_items.Headgear) THEN {"Headgear"} ELSE {})
        \cup CushionHolders(it)

\* the billing rows whose description contains the query
Matched(row) == Has(row.Description, lower(mask_name))
RowItem(row) == [id |-> row.ItemCode, desc |-> row.Description, hcpcs |-> row.HCPCS]

\* the cushion row the loop has just processed
JustProcessed == pc = "cushions" /\ i > 1
Last == cushions[i - 1]

PopulatedBucketsObeyRules ==
    (pc = "cushions" \/ FindReturned) =>
        \A k \in DOMAIN RuleOrder :
            LET key == RuleOrder[k]
                held == mask_items.Cushions[key]
            IN  held # None =>
                    /\ Rule(key, held.desc)
                    /\ \A j \in 1..(k - 1) : ~Rule(RuleOrder[j], held.desc)

\* C2 (as claimed): every populated size bucket obeys its rule and no rule of
\* higher priority, and a description containing "medium wide" is placed in
\* Medium/Wide, never in Medium or Wide.
C2_MediumWideInMediumWide ==
    /\ PopulatedBucketsObeyRules
    /\ (JustProcessed /\ Has(Last.Description, <<"m", "e", "d", "i", "u", "m", " ", "w", "i", "d", "e">>)) =>
            /\ mask_items.Cushions["Medium/Wide"] = RowItem(Last)
            /\ mask_items.Cushions["Medium"] # RowItem(Last)
            /\ mask_items.Cushions["Wide"] # RowItem(Last)

\* C2 (amended): every populated size bucket obeys its rule and no rule of higher
\* priority; a description containing "medium wide" is never placed in Medium or
\* Wide, and is placed in Medium/Wide unless it also carries a Small/Wide keyword
\* ("small wide", "sml-wd", "sml/wd"), which has priority and takes it to Small/Wide.
C2_MediumWideUnlessSmallWide ==
    /\ PopulatedBucketsObeyRules
    /\ (JustProcessed /\ Has(Last.Description, <<"m", "e", "d", "i", "u", "m", " ", "w", "i", "d", "e">>)) =>
            /\ mask_items.Cushions["Medium"] # RowItem(Last)
            /\ mask_items.Cushions["Wide"] # RowItem(Last)
            /\ IF HasAny(Last.Description, {<<"s", "m", "a", "l", "l", " ", "w", "i", "d", "e">>, <<"s", "m", "l", "-", "w", "d">>, <<"s", "m", "l", "/", "w", "d">>})
               THEN mask_items.Cushions["Small/Wide"] = RowItem(Last)
               ELSE mask_items.Cushions["Medium/Wide"] = RowItem(Last)

\* a row with "medium wide" and "sml-wd" has just been placed in Small/Wide
C2_Witness ==
    /\ JustProcessed
    /\ Has(Last.Description, <<"m", "e", "d", "i", "u", "m", " ", "w", "i", "d", "e">>)
    /\ Has(Last.Description, <<"s", "m", "l", "-", "w", "d">>)
    /\ mask_items.Cushions["Small/Wide"] = RowItem(Last)
    /\ mask_items.Cushions["Medium/Wide"] = None

(***************************************************************************)
(* C3                                                                      *)
(***************************************************************************)
AccessorySection == HasText("## AirSense A10/A11 Accessories")
QueryHasA11 == Has(mask_name, <<"a", "1", "1">>)

ZeroMatch ==
    /\ \A k \in DOMAIN master_df : ~Has(master_df[k].ItemName, lower(mask_name))
    /\ \A k \in DOMAIN snap_df : ~Matched(snap_df[k])

\* the section `title` is printed with "- Not found" under it
NotFoundUnder(title) ==
    \E k \in DOMAIN out :
        /\ out[k].text = title
        /\ k + 1 \in DOMAIN out
        /\ out[k + 1].text = "- Not found"

\* C4 (as claimed): when the query matches no row in either table, the report is
\* still rendered: "Not found" under Fitpack, Frame and Headgear, "No cushions
\* found" under Cushions, no exception, output not empty.
C4_ZeroMatchRendersReport ==
    (Ended /\ Loaded /\ mask_name # <<>> /\ ZeroMatch) =>
        /\ raised = "none"
        /\ NotFoundUnder("### Fitpack")
        /\ NotFoundUnder("### Frame Mask")
        /\ NotFoundUnder("### Headgear")
        /\ HasText("- No cushions found")

\* C4 (amended): when the query matches no row in either table, print_mask_report
\* does not raise and its output is not empty, but no report is rendered: after
\* the load message it prints only the Error section with "No items found for
\* mask: <query>"; no "Not found" or "No cushions found" marker appears.  The
\* Error section is printed for no query that matches a row.
C4_ZeroMatchPrintsErrorOnly ==
    /\ (Ended /\ Loaded /\ mask_name # <<>> /\ ZeroMatch) =>
            /\ pc = "returned"
            /\ raised = "none"
            /\ out = <<Text("Successfully loaded"), Text("## Error"),
                       NameLine("No items found for mask: ", mask_name)>>
    /\ HasText("## Error") => ZeroMatch

\* a run on a query that matches nothing has ended with the Error section
C4_Witness ==
    /\ pc = "returned"
    /\ mask_name # <<>>
    /\ ZeroMatch
    /\ HasText("## Error")
    /\ snap_df # <<>>
    /\ master_df # <<>>

(***************************************************************************)
(* C5                                                                      *)
(***************************************************************************)
\* find_mask_items has been entered and has done its first step
FindEntered == pc \in (AfterFind \cup {"fitpack", "frame", "headgear", "cushions", "print_error"})

ReportText == \E k \in DOMAIN out : k > 1

\* C5 (as claimed): find_mask_items rejects every empty or whitespace-only query
\* with an invalid-argument error before any row is filtered, and no report text
\* is emitted for such a query.
C5_BlankQueryRejected ==
    (Loaded /\ FindEntered /\ strip(mask_name) = <<>>) =>
        /\ pc = "raised"
        /\ raised = "ValueError"
        /\ ~ReportText

\* C5 (amended): find_mask_items rejects the empty query with ValueError before
\* any row is filtered, and nothing but the load message has been printed then.
\* It does not reject a whitespace-only query: it filters with it as with any
\* other text.  Only the prompt of __main__ strips its input and refuses a blank
\* one, with an error message and exit status 1, before print_mask_report is
\* called.
C5_OnlyEmptyQueryRejected ==
    /\ (Loaded /\ FindEntered /\ mask_name = <<>>) =>
            /\ pc = "raised"
            /\ raised = "ValueError"
            /\ master_mask = <<>> /\ snap_mask = <<>>
            /\ mask_items = NoItems
            /\ out = <<Text("Successfully loaded")>>
    /\ (Loaded /\ FindEntered /\ mask_name # <<>>) => raised # "ValueError"
    /\ (pc = "exit") <=> (exit_code = 1)
    /\ pc = "exit" =>
            /\ strip(input) = <<>>
            /\ out = <<Text("Error: Mask name cannot be empty.")>>

\* find_mask_items has raised ValueError on the empty query
C5_Witness ==
    /\ pc = "raised"
    /\ raised = "ValueError"
    /\ mask_name = <<>>
    /\ snap_df # <<>>

(***************************************************************************)
(* C6                                                                      *)
(***************************************************************************)
BundleBuilt ==
    pc \in {"render_items", "render_cushions", "render_bundle", "render_alternatives",
            "render_accessories", "returned", "raised"} /\ mask_items.kind = "report"

SizeOrder ==
    <<"Small", "Small/Wide", "Medium", "Medium/Wide", "Large", "X-Small", "Wide", "Petite">>

BundleEntry(it, qty, type) ==
    [id |-> it.id, desc |-> it.desc, hcpcs |-> it.hcpcs, qty |-> qty, type |-> type]

ExpectedBundle ==
    LET populated == SelectSeq(SizeOrder, LAMBDA key : mask_items.Cushions[key] # None)
        sized == [k \in 1..Len(populated) |->
                    BundleEntry(mask_items.Cushions[populated[k]], 3, "Cushion")]
        others == [k \in 1..Len(mask_items.Cushions["Other"]) |->
                    BundleEntry(mask_items.Cushions["Other"][k], 3, "Cushion")]
        one(list, type) == IF Len(list) > 0 THEN <<BundleEntry(list[1], 1, type)>> ELSE <<>>
    IN  sized \o others \o one(mask_items.Headgear, "Headgear")
            \o one(mask_items.Frame, "Frame") \o one(mask_items.Fitpack, "Fitpack")

\* C6: the bundle is exactly: a quantity-3 Cushion entry per populated size
\* bucket in size-key order, then one per Other item in insertion order, then the
\* first Headgear, the first Frame and the first Fitpack at quantity 1, those that
\* exist; Headgear precedes Frame precedes Fitpack; no items, empty bundle.
C6_BundleOrder ==
    BundleBuilt =>
        /\ bundle = ExpectedBundle
        /\ \A a, b \in DOMAIN bundle :
              (\/ bundle[a].type = "Cushion" /\ bundle[b].type # "Cushion"
               \/ bundle[a].type = "Headgear" /\ bundle[b].type \in {"Frame", "Fitpack"}
               \/ bundle[a].type = "Frame" /\ bundle[b].type = "Fitpack") => a < b
        /\ (/\ mask_items.Fitpack = <<>> /\ mask_items.Frame = <<>>
            /\ mask_items.Headgear = <<>> /\ mask_items.Cushions = EmptyCushions)
              => bundle = <<>>

\* a bundle with a cushion, the headgear, the frame and the fitpack
C6_Witness ==
    /\ BundleBuilt
    /\ Len(bundle) = 4
    /\ bundle[1].type = "Cushion" /\ bundle[1].qty = 3
    /\ bundle[2].type = "Headgear"
    /\ bundle[3].type = "Frame"
    /\ bundle[4].type = "Fitpack" /\ bundle[4].qty = 1

(***************************************************************************)
(* C7                                                                      *)
(***************************************************************************)
\* the cushion rows the loop has processed so far
Processed == SubSeq(cushions, 1, i - 1)

\* C7: after any number of cushion rows, each of the eight size buckets holds
\* nothing if the rules assigned it no processed row, and otherwise the last
\* processed row, in table order, that they assigned to it; Other holds every row
\* assigned to it, in table order.
C7_LastMatchWins ==
    (pc = "cushions" \/ FindReturned) =>
        /\ \A key \in SizeKeys :
              LET mine == {k \in DOMAIN Processed : Assigned(Processed[k].Description) = key}
              IN  IF mine = {}
                  THEN mask_items.Cushions[key] = None
                  ELSE mask_items.Cushions[key] =
                          RowItem(Processed[CHOOSE k \in mine : \A j \in mine : j <= k])
        /\ LET others == SelectSeq(Processed, LAMBDA r : Assigned(r.Description) = "Other")
           IN  mask_items.Cushions["Other"] = [k \in 1..Len(others) |-> RowItem(others[k])]

\* two different rows were assigned to the same size bucket, which holds the
\* second one
C7_Witness ==
    /\ pc = "cushions"
    /\ i = 3
    /\ Assigned(cushions[1].Description) = Assigned(cushions[2].Description)
    /\ Assigned(cushions[1].Description) \in SizeKeys
    /\ cushions[1] # cushions[2]
    /\ mask_items.Cushions[Assigned(cushions[2].Description)] = RowItem(cushions[2])

(***************************************************************************)
(* C8                                                                      *)
(***************************************************************************)
AccessoriesFound == pc \in (AfterFind \ {"accessories"}) /\ mask_items.kind = "report"

\* C8 (as claimed): no bucket of find_airsense_accessories holds two entries with
\* the same id, even when the catalog entry and the billing entry of that id
\* differ in description or reimbursement code.
C8_NoDuplicateIds ==
    AccessoriesFound =>
        \A b \in {"Hose", "Filter", "WaterChamber"} :
            \A x, y \in DOMAIN accessories[b] :
                accessories[b][x].id = accessories[b][y].id => x = y

(***************************************************************************)
(* C9                                                                      *)
(***************************************************************************)
\* C9 (as claimed): for loaded tables and a query that matches a row of either
\* table, print_mask_report runs to completion without raising and ends with the
\* footer, also when cushion Other is not empty and when only billing rows match.
C9_MatchedReportCompletes ==
    (Ended /\ Loaded /\ mask_name # <<>> /\ ~ZeroMatch) =>
        /\ pc = "returned"
        /\ raised = "none"
        /\ out[Len(out)].text
              = "For CPAP returns: 5816 E. Shields Ave, Ste 111, Fresno, CA 93727"

(***************************************************************************)
(* C10                                                                     *)
(***************************************************************************)
\* C10 (as claimed): a matched cushion row whose lower-cased description contains
\* "x-small" and not "wide" is placed in the X-Small bucket and not in Small.
C10_XSmallInXSmall ==
    (JustProcessed /\ Has(Last.Description, <<"x", "-", "s", "m", "a", "l", "l">>) /\ ~Has(Last.Description, <<"w", "i", "d", "e">>)) =>
        /\ mask_items.Cushions["X-Small"] = RowItem(Last)
        /\ mask_items.Cushions["Small"] # RowItem(Last)

====
